---- MODULE Spec2Model ----
(***************************************************************************)
(* The options panel of the console UI                                     *)
(* (mitmproxy/tools/console/options.py): the list walker over the sorted   *)
(* option names, its focused row and edit mode, the key dispatch of the    *)
(* list and of the two-pane panel, and the option store they are bound to. *)
(*                                                                         *)
(* Text is a sequence of one-character strings, so that str(), the edit    *)
(* buffer and the store's parsing are real conversions.  An exception that *)
(* escapes a handler is recorded in err; the event loop ends with it, so   *)
(* no further event is handled.                                            *)
(***************************************************************************)
EXTENDS Integers, Sequences, FiniteSets, TLC

\* Longest edit buffer the text-input widget is driven to.
MaxLen == 2

\* options.py:15
HELP_HEIGHT == 5

----------------------------------------------------------------------------
(* The option universe: the names the store may hold, in ascending         *)
(* lexicographic order, with their declared type, choices, default, help.  *)

AllNames ==
    << "console_layout", "ignore_hosts", "ratelimit", "timeout", "verbose" >>

NameSet == { AllNames[i] : i \in 1..Len(AllNames) }

\* Position of a name in lexicographic order (the sort key of sorted()).
Rank(n) == CHOOSE i \in 1..Len(AllNames) : AllNames[i] = n

\* typespec: "bool", "str", "int", "optstr", "optint", "seqstr", or a type
\* outside the panel's taxonomy ("float").
TypeSpec(n) ==
    CASE n = "console_layout" -> "str"
      [] n = "ignore_hosts"   -> "seqstr"
      [] n = "ratelimit"      -> "float"
      [] n = "timeout"        -> "int"
      [] n = "verbose"        -> "bool"

NoneVal == [k |-> "none"]
BoolVal(b) == [k |-> "bool", b |-> b]
IntVal(i) == [k |-> "int", n |-> i]
StrVal(s) == [k |-> "str", s |-> s]
SeqVal(q) == [k |-> "seq", q |-> q]

Single == << "s" >>
Vertical == << "v" >>

\* opt.choices: the empty set when the option has none.
Choices(n) == IF n = "console_layout" THEN { Single, Vertical } ELSE {}

Default(n) ==
    CASE n = "console_layout" -> StrVal(Single)
      [] n = "ignore_hosts"   -> SeqVal(<< >>)
      [] n = "ratelimit"      -> NoneVal
      [] n = "timeout"        -> IntVal(5)
      [] n = "verbose"        -> BoolVal(FALSE)

\* opt.help: one help text per option.
Help(n) == << "help", n >>

----------------------------------------------------------------------------
(* Text conversions                                                        *)

Digits == << "0", "1", "2", "3", "4", "5", "6", "7", "8", "9" >>

IsDigit(c) == \E d \in 1..10 : Digits[d] = c

DigitVal(c) == (CHOOSE d \in 1..10 : Digits[d] = c) - 1

\* str(i) for i >= 0
RECURSIVE IntToStr(_)
IntToStr(i) ==
    IF i < 10 THEN << Digits[i + 1] >>
    ELSE Append(IntToStr(i \div 10), Digits[(i % 10) + 1])

\* int(s) for a nonempty string of digits
RECURSIVE StrToInt(_)
StrToInt(s) ==
    IF Len(s) = 0 THEN 0
    ELSE 10 * StrToInt(SubSeq(s, 1, Len(s) - 1)) + DigitVal(s[Len(s)])

\* pprint.pformat of a list of strings: ['a', 'b']
RECURSIVE Joined(_)
Joined(q) ==
    IF Len(q) = 0 THEN << >>
    ELSE IF Len(q) = 1 THEN << "'" >> \o q[1] \o << "'" >>
    ELSE << "'" >> \o q[1] \o << "'", ",", " " >> \o Joined(Tail(q))

Pformat(q) == << "[" >> \o Joined(q) \o << "]" >>

\* Python truthiness of an option value ("not val").
Falsy(v) ==
    CASE v.k = "none" -> TRUE
      [] v.k = "bool" -> ~v.b
      [] v.k = "int"  -> v.n = 0
      [] v.k = "str"  -> Len(v.s) = 0
      [] v.k = "seq"  -> Len(v.q) = 0

\* str(val)
StrOf(v) ==
    CASE v.k = "none" -> << "N", "o", "n", "e" >>
      [] v.k = "bool" -> IF v.b THEN << "T", "r", "u", "e" >>
                         ELSE << "F", "a", "l", "s", "e" >>
      [] v.k = "int"  -> IntToStr(v.n)
      [] v.k = "str"  -> v.s
      [] v.k = "seq"  -> Pformat(v.q)

----------------------------------------------------------------------------
(* The option store (mitmproxy.optmanager), as the panel uses it: keys(),  *)
(* has_changed(), set("name=text"), toggler(name), and the changed signal. *)

VARIABLES
    options,         \* the store: option name -> current value
    opts,            \* walker.opts: the sorted names
    index,           \* walker.index: the focused position, 0-based
    editing,         \* walker.editing
    focus_obj,       \* walker.focus_obj: the cached row widget of the focus
    help_text,       \* the help pane's body
    focus_position,  \* the panel's pane focus: 0 the list, 1 the help pane
    header,          \* the help pane's header style
    err,             \* the exception that escaped a handler, or "none"
    last,            \* what the last handler sent, requested and opened
    edit_start       \* history: the store, focus and name when the edit began

vars ==
    << options, opts, index, editing, focus_obj, help_text,
       focus_position, header, err, last, edit_start >>

keys(o) == DOMAIN o

has_changed(o, n) == o[n] # Default(n)

AllDigits(s) == \A i \in 1..Len(s) : IsDigit(s[i])

TrueText == << "t", "r", "u", "e" >>
FalseText == << "f", "a", "l", "s", "e" >>

\* The store's parsing of the text of a set request for option n:
\* [ok |-> TRUE, val |-> v], or [ok |-> FALSE] for a validation error.
ParseSetval(n, text) ==
    LET t == TypeSpec(n) IN
    IF Choices(n) # {} /\ text \notin Choices(n) THEN [ok |-> FALSE]
    ELSE CASE t \in {"str", "optstr"} -> [ok |-> TRUE, val |-> StrVal(text)]
           [] t = "int" ->
                IF Len(text) > 0 /\ AllDigits(text)
                THEN [ok |-> TRUE, val |-> IntVal(StrToInt(text))]
                ELSE [ok |-> FALSE]
           [] t = "optint" ->
                IF Len(text) = 0 THEN [ok |-> TRUE, val |-> NoneVal]
                ELSE IF AllDigits(text)
                THEN [ok |-> TRUE, val |-> IntVal(StrToInt(text))]
                ELSE [ok |-> FALSE]
           [] t = "bool" ->
                IF text = TrueText THEN [ok |-> TRUE, val |-> BoolVal(TRUE)]
                ELSE IF text = FalseText THEN [ok |-> TRUE, val |-> BoolVal(FALSE)]
                ELSE [ok |-> FALSE]
           [] OTHER -> [ok |-> FALSE]

\* str(e) of the store's validation error
ErrorMessage(n, text) == << "OptionsError", n, text >>

\* The store after toggler(n)()
Toggled(o, n) == [o EXCEPT ![n] = BoolVal(~o[n].b)]

\* sorted(S): the names of S in ascending order
RECURSIVE Sorted(_)
Sorted(S) ==
    IF S = {} THEN << >>
    ELSE LET m == CHOOSE x \in S : \A y \in S : Rank(x) <= Rank(y)
         IN  << m >> \o Sorted(S \ {m})

----------------------------------------------------------------------------
(* OptionItem: one rendered row.                                           *)

\* DisplayVal without the boolean case: str(val), or "" for False.
DisplayVal_nobool(n, val) ==
    IF Falsy(val) THEN << >>
    ELSE IF TypeSpec(n) = "seqstr" THEN Pformat(val.q)
    ELSE StrOf(val)

\* The display text of a value of option n.
DisplayVal(n, val) ==
    IF TypeSpec(n) = "bool" THEN (IF val.b THEN TrueText ELSE FalseText)
    ELSE IF Falsy(val) THEN << >>
    ELSE IF TypeSpec(n) = "seqstr" THEN Pformat(val.q)
    ELSE StrOf(val)

ValStyle(focused, changed) ==
    IF focused
    THEN (IF changed THEN "option_active_selected" ELSE "option_selected")
    ELSE (IF changed THEN "option_active" ELSE "text")

\* OptionItem(walker, opt, focused, namewidth, editing): the widget is built
\* once, at construction, from the store's value at that moment.  text is
\* the display text, or the text-input widget's buffer when editing.
get_widget(o, n, focused, edit) ==
    [ name     |-> n,
      focused  |-> focused,
      editing  |-> edit,
      text     |-> DisplayVal(n, o[n]),
      valstyle |-> IF edit THEN "edit" ELSE ValStyle(focused, has_changed(o, n)) ]

\* OptionItem.get_edit_text
Item_get_edit_text(row) == row.text

NoRow == [ name |-> "", focused |-> FALSE, editing |-> FALSE,
           text |-> << >>, valstyle |-> "none" ]

----------------------------------------------------------------------------
(* OptionListWalker.  A walker value w is the record of its fields; each   *)
(* method maps (w, store) to the walker after the call.                    *)

Walker ==
    [ opts |-> opts, index |-> index, editing |-> editing,
      focus_obj |-> focus_obj, help |-> help_text, err |-> err ]

InRange(w, pos) == 0 <= pos /\ pos < Len(w.opts)

\* walker._get(pos, editing), for pos in range
_get(w, o, pos, edit) == get_widget(o, w.opts[pos + 1], pos = w.index, edit)

\* set_focus without its first statement: editing is left as it is.
set_focus_keeps_editing(w, o, i) ==
    IF ~InRange(w, i) THEN [w EXCEPT !.err = "IndexError"]
    ELSE LET w2 == [w EXCEPT !.index = i] IN
         [w2 EXCEPT !.focus_obj = _get(w2, o, i, w2.editing),
                    !.help = Help(w2.opts[i + 1])]

\* set_focus that builds the focus row before it assigns index.
set_focus_row_first(w, o, i) ==
    LET w1 == [w EXCEPT !.editing = FALSE] IN
    IF ~InRange(w1, i) THEN [w1 EXCEPT !.err = "IndexError"]
    ELSE [w1 EXCEPT !.focus_obj = _get(w1, o, i, w1.editing),
                    !.index = i,
                    !.help = Help(w1.opts[i + 1])]

\* walker.set_focus(index)
set_focus(w, o, i) ==
    LET w1 == [w EXCEPT !.editing = FALSE] IN
    IF ~InRange(w1, i) THEN [w1 EXCEPT !.err = "IndexError"]
    ELSE LET w2 == [w1 EXCEPT !.index = i] IN
         [w2 EXCEPT !.focus_obj = _get(w2, o, i, w2.editing),
                    !.help = Help(w2.opts[i + 1])]

\* sig_mod that keeps the names it has: opts is not recomputed.
sig_mod_stale(w, o) ==
    IF Len(w.opts) = 0 THEN [w EXCEPT !.err = "ValueError"]
    ELSE set_focus(w, o, w.index)

\* walker.sig_mod: the handler of the store's changed signal
sig_mod(w, o) ==
    LET w1 == [w EXCEPT !.opts = Sorted(keys(o))] IN
    IF Len(w1.opts) = 0 THEN [w1 EXCEPT !.err = "ValueError"]
    ELSE set_focus(w1, o, w1.index)

\* walker.start_editing
start_editing(w, o) ==
    LET w1 == [w EXCEPT !.editing = TRUE] IN
    IF ~InRange(w1, w1.index) THEN [w1 EXCEPT !.err = "IndexError"]
    ELSE [w1 EXCEPT !.focus_obj = _get(w1, o, w1.index, TRUE)]

\* walker.stop_editing
stop_editing(w, o) ==
    LET w1 == [w EXCEPT !.editing = FALSE] IN
    IF ~InRange(w1, w1.index) THEN [w1 EXCEPT !.err = "IndexError"]
    ELSE set_focus([w1 EXCEPT !.focus_obj = _get(w1, o, w1.index, FALSE)],
                   o, w1.index)

\* walker.get_edit_text
get_edit_text(w) == Item_get_edit_text(w.focus_obj)

\* walker.get_focus
get_focus(w) == << w.focus_obj, w.index >>

NoneNone == << NoRow, -1 >>

\* walker.get_next(pos)
get_next(w, o, pos) ==
    IF pos >= Len(w.opts) - 1 THEN NoneNone
    ELSE << _get(w, o, pos + 1, FALSE), pos + 1 >>

\* get_prev with its boundary one position too far: no row before 1 either.
get_prev_stops_early(w, o, pos) ==
    IF pos - 1 <= 0 THEN NoneNone
    ELSE << _get(w, o, pos - 1, FALSE), pos - 1 >>

\* walker.get_prev(pos)
get_prev(w, o, pos) ==
    IF pos - 1 < 0 THEN NoneNone
    ELSE << _get(w, o, pos - 1, FALSE), pos - 1 >>

\* walker.positions(reverse)
positions(w, reverse) ==
    IF reverse THEN [i \in 1..Len(w.opts) |-> Len(w.opts) - i]
    ELSE [i \in 1..Len(w.opts) |-> i - 1]

\* The list box draws the list around position pos: the rows it is given
\* by get_focus, get_next(pos) and get_prev(pos), and the walker as these
\* calls leave it.  None of them, nor _get, nor the row's construction,
\* assigns a field of the walker.
Draw(w, o, pos) ==
    [ rows |-> << get_focus(w), get_next(w, o, pos), get_prev(w, o, pos) >>,
      w    |-> w ]

\* can_edit_inplace without the test of opt.choices.
can_edit_inplace_nochoices(n) ==
    TypeSpec(n) \in {"str", "int", "optstr", "optint"}

\* can_edit_inplace(opt)
can_edit_inplace(n) ==
    IF Choices(n) # {} THEN FALSE
    ELSE TypeSpec(n) \in {"str", "int", "optstr", "optint"}

----------------------------------------------------------------------------
(* A handler runs on a record p of what it reads and writes: the store o,  *)
(* the walker w, the status messages sent, the requests made to the store, *)
(* the overlay opened, and exc, an exception the store raised to it.       *)

Handler ==
    [ o |-> options, w |-> Walker, sent |-> << >>, reqs |-> << >>,
      overlay |-> "none", exc |-> "none", msg |-> << >> ]

\* The store sends its changed signal: the walker's sig_mod runs at once.
changed_send(p) == [p EXCEPT !.w = sig_mod(p.w, p.o)]

\* options.set("name=text"): a validation error, or the new value and the
\* changed signal.
options_set(p, n, text) ==
    LET r  == ParseSetval(n, text)
        p1 == [p EXCEPT !.reqs = Append(@, << "set", n, text >>)]
    IN  IF n \notin keys(p.o) \/ ~r.ok
        THEN [p1 EXCEPT !.exc = "OptionsError", !.msg = ErrorMessage(n, text)]
        ELSE changed_send([p1 EXCEPT !.o = [p.o EXCEPT ![n] = r.val]])

\* options.toggler(name)(): flips the boolean and sends the changed signal.
options_toggler(p, n) ==
    LET p1 == [p EXCEPT !.reqs = Append(@, << "toggle", n >>)] IN
    IF n \notin keys(p.o) \/ p.o[n].k # "bool"
    THEN [p1 EXCEPT !.w.err = "OptionsError"]
    ELSE changed_send([p1 EXCEPT !.o = Toggled(p.o, n)])

\* signals.status_message.send(message=...)
status_message_send(p, m) == [p EXCEPT !.sent = Append(@, m), !.exc = "none"]

Raised(p) == p.w.err # "none"

----------------------------------------------------------------------------
(* The text-input widget (urwid.Edit) and the list box (urwid.ListBox),    *)
(* as far as the panel drives them.                                        *)

Chars == { "0", "1" }

ScrollKeys == { "up", "down", "page up", "page down" }

\* Edit.keypress: a character is appended at the cursor, which stays at the
\* end of the text; backspace deletes before it; other keys change nothing.
Edit_keypress(text, key) ==
    IF key \in Chars THEN Append(text, key)
    ELSE IF key = "backspace" /\ Len(text) > 0
    THEN SubSeq(text, 1, Len(text) - 1)
    ELSE text

\* Item_keypress without its return: the key goes to the text-input widget
\* and is handed back to the list box all the same.
Item_keypress_passes(row, key) ==
    IF row.editing
    THEN [row |-> [row EXCEPT !.text = Edit_keypress(row.text, key)],
          key |-> key]
    ELSE [row |-> row, key |-> key]

\* OptionItem.keypress: [row, key], key "consumed" standing for None
Item_keypress(row, key) ==
    IF row.editing
    THEN [row |-> [row EXCEPT !.text = Edit_keypress(row.text, key)],
          key |-> "consumed"]
    ELSE [row |-> row, key |-> key]

\* The positions the list box may move the focus to on a scrolling key: one
\* row for up and down (found with get_prev and get_next), any number of
\* rows, as the screen's height has it, for the page keys.
ScrollTargets(w, o, key) ==
    CASE key = "up" -> { get_prev(w, o, w.index)[2] } \ { -1 }
      [] key = "down" -> { get_next(w, o, w.index)[2] } \ { -1 }
      [] key = "page up" -> { i \in 0..(Len(w.opts) - 1) : i < w.index }
      [] key = "page down" -> { i \in 0..(Len(w.opts) - 1) : i > w.index }
      [] OTHER -> {}

\* ListBox.keypress (the super().keypress of OptionsList.keypress): the key
\* goes to the focus widget; a scrolling key it returns moves the focus to
\* position t, when t is a target of the key.
ListBox_keypress(p, key, t) ==
    LET r == Item_keypress(get_focus(p.w)[1], key) IN
    IF r.key = "consumed" THEN [p EXCEPT !.w.focus_obj = r.row]
    ELSE IF t \in ScrollTargets(p.w, p.o, key)
    THEN [p EXCEPT !.w = set_focus(p.w, p.o, t)]
    ELSE p

----------------------------------------------------------------------------
(* OptionsList.keypress, branch by branch.                                 *)

\* keypress_enter that leaves edit mode only when the store accepted.
keypress_enter_retry(p) ==
    LET foc == get_focus(p.w)[1]
        v   == get_edit_text(p.w)
        p1  == options_set(p, foc.name, v)
    IN  IF p1.exc = "OptionsError" THEN status_message_send(p1, p1.msg)
        ELSE IF Raised(p1) THEN p1
        ELSE [p1 EXCEPT !.w = stop_editing(p1.w, p1.o)]

\* keypress_enter without the except clause: the store's error escapes.
keypress_enter_nocatch(p) ==
    LET foc == get_focus(p.w)[1]
        v   == get_edit_text(p.w)
        p1  == options_set(p, foc.name, v)
    IN  IF p1.exc = "OptionsError" THEN [p1 EXCEPT !.w.err = "OptionsError"]
        ELSE IF Raised(p1) THEN p1
        ELSE [p1 EXCEPT !.w = stop_editing(p1.w, p1.o)]

\* editing, key "enter"
keypress_enter(p) ==
    LET foc == get_focus(p.w)[1]
        v   == get_edit_text(p.w)
        p1  == options_set(p, foc.name, v)
        p2  == IF p1.exc = "OptionsError"
               THEN status_message_send(p1, p1.msg)
               ELSE p1
    IN  IF Raised(p2) THEN p2
        ELSE [p2 EXCEPT !.w = stop_editing(p2.w, p2.o)]

\* keypress_esc that commits the buffer as enter does.
keypress_esc_commits(p) == keypress_enter(p)

\* editing, key "esc"
keypress_esc(p) == [p EXCEPT !.w = stop_editing(p.w, p.o)]

\* not editing, key "m_start"
keypress_m_start(p) ==
    LET p1 == [p EXCEPT !.w = set_focus(p.w, p.o, 0)] IN
    IF Raised(p1) THEN p1 ELSE ListBox_keypress(p1, "m_start", -1)

\* keypress_m_end that moves the focus to the first row, as m_start does.
keypress_m_end_first(p) ==
    LET p1 == [p EXCEPT !.w = set_focus(p.w, p.o, 0)] IN
    IF Raised(p1) THEN p1 ELSE ListBox_keypress(p1, "m_end", -1)

\* not editing, key "m_end"
keypress_m_end(p) ==
    LET p1 == [p EXCEPT !.w = set_focus(p.w, p.o, Len(p.w.opts) - 1)] IN
    IF Raised(p1) THEN p1 ELSE ListBox_keypress(p1, "m_end", -1)

\* keypress_m_select without its last else: an option of no known kind is
\* passed over in silence.
keypress_m_select_silent(p) ==
    LET n  == get_focus(p.w)[1].name
        p1 == IF TypeSpec(n) = "bool"
              THEN LET q == options_toggler(p, n) IN
                   IF Raised(q) THEN q
                   ELSE [q EXCEPT !.w = set_focus(q.w, q.o, q.w.index)]
              ELSE IF can_edit_inplace(n)
              THEN [p EXCEPT !.w = start_editing(p.w, p.o)]
              ELSE IF Choices(n) # {}
              THEN [p EXCEPT !.overlay = "Chooser"]
              ELSE IF TypeSpec(n) = "seqstr"
              THEN [p EXCEPT !.overlay = "OptionsOverlay"]
              ELSE p
    IN  IF Raised(p1) THEN p1 ELSE ListBox_keypress(p1, "m_select", -1)

\* not editing, key "m_select": the type-directed action
keypress_m_select(p) ==
    LET n  == get_focus(p.w)[1].name
        p1 == IF TypeSpec(n) = "bool"
              THEN LET q == options_toggler(p, n) IN
                   IF Raised(q) THEN q
                   ELSE [q EXCEPT !.w = set_focus(q.w, q.o, q.w.index)]
              ELSE IF can_edit_inplace(n)
              THEN [p EXCEPT !.w = start_editing(p.w, p.o)]
              ELSE IF Choices(n) # {}
              THEN [p EXCEPT !.overlay = "Chooser"]
              ELSE IF TypeSpec(n) = "seqstr"
              THEN [p EXCEPT !.overlay = "OptionsOverlay"]
              ELSE [p EXCEPT !.w.err = "NotImplementedError"]
    IN  IF Raised(p1) THEN p1 ELSE ListBox_keypress(p1, "m_select", -1)

----------------------------------------------------------------------------
(* The state machine: one action per event.                                *)

NoEdit == [on |-> FALSE]

NoEnd == [by |-> "none"]

StartingStores ==
    { [n \in S |-> Default(n)] : S \in (SUBSET NameSet) \ { {} } }

\* OptionListWalker.__init__
WalkerInit(o) ==
    set_focus([ opts |-> Sorted(keys(o)), index |-> 0, editing |-> FALSE,
                focus_obj |-> NoRow, help |-> << >>, err |-> "none" ], o, 0)

\* Options.__init__ / OptionHelp.__init__
Init ==
    /\ options \in StartingStores
    /\ opts = WalkerInit(options).opts
    /\ index = WalkerInit(options).index
    /\ editing = WalkerInit(options).editing
    /\ focus_obj = WalkerInit(options).focus_obj
    /\ help_text = WalkerInit(options).help
    /\ err = WalkerInit(options).err
    /\ focus_position = 0
    /\ header = "heading_inactive"
    /\ last = [sent |-> << >>, reqs |-> << >>, overlay |-> "none",
               was |-> NoneVal, ended |-> NoEnd]
    /\ edit_start = NoEdit

\* The state after the handler of event ev, which ended as p.  last.was is
\* the value an option had before the handler toggled it; last.ended names
\* the event that ended an edit, the position that was being edited and the
\* edit buffer it ended with.
Apply(p, ev) ==
    /\ options' = p.o
    /\ opts' = p.w.opts
    /\ index' = p.w.index
    /\ editing' = p.w.editing
    /\ focus_obj' = p.w.focus_obj
    /\ help_text' = p.w.help
    /\ err' = p.w.err
    /\ last' = [sent |-> p.sent, reqs |-> p.reqs, overlay |-> p.overlay,
                was |-> IF /\ Len(p.reqs) = 1
                           /\ p.reqs[1][1] = "toggle"
                           /\ p.reqs[1][2] \in keys(options)
                        THEN options[p.reqs[1][2]] ELSE NoneVal,
                ended |-> IF editing /\ ~p.w.editing
                          THEN [by |-> ev, index |-> index,
                                text |-> focus_obj.text]
                          ELSE NoEnd]
    /\ edit_start' = IF ~p.w.editing THEN NoEdit
                     ELSE IF editing THEN edit_start
                     ELSE [on |-> TRUE, o |-> options, index |-> index,
                           name |-> opts[index + 1]]

Running == err = "none"

\* Options.keypress hands the key to the focused pane.
ListFocused == Running /\ focus_position = 0

KeyEnter ==
    /\ ListFocused
    /\ Apply(IF editing THEN keypress_enter(Handler)
             ELSE ListBox_keypress(Handler, "enter", -1), "enter")
    /\ UNCHANGED << focus_position, header >>

KeyEsc ==
    /\ ListFocused
    /\ Apply(IF editing THEN keypress_esc(Handler)
             ELSE ListBox_keypress(Handler, "esc", -1), "esc")
    /\ UNCHANGED << focus_position, header >>

KeyMStart ==
    /\ ListFocused
    /\ Apply(IF editing THEN ListBox_keypress(Handler, "m_start", -1)
             ELSE keypress_m_start(Handler), "m_start")
    /\ UNCHANGED << focus_position, header >>

KeyMEnd ==
    /\ ListFocused
    /\ Apply(IF editing THEN ListBox_keypress(Handler, "m_end", -1)
             ELSE keypress_m_end(Handler), "m_end")
    /\ UNCHANGED << focus_position, header >>

KeyMSelect ==
    /\ ListFocused
    /\ Apply(IF editing THEN ListBox_keypress(Handler, "m_select", -1)
             ELSE keypress_m_select(Handler), "m_select")
    /\ UNCHANGED << focus_position, header >>

\* A line or page scrolling key.
KeyScroll ==
    /\ ListFocused
    /\ \E key \in ScrollKeys :
       \E t \in ScrollTargets(Walker, options, key) \cup { -1 } :
          /\ t = -1 => ScrollTargets(Walker, options, key) = {}
          /\ Apply(ListBox_keypress(Handler, key, t), key)
    /\ UNCHANGED << focus_position, header >>

\* A character key or backspace.
KeyText ==
    /\ ListFocused
    /\ \E key \in Chars \cup { "backspace" } :
          /\ (focus_obj.editing /\ key \in Chars) => Len(focus_obj.text) < MaxLen
          /\ Apply(ListBox_keypress(Handler, key, -1), key)
    /\ UNCHANGED << focus_position, header >>

\* Any key but m_next while the help pane holds the pane focus: the help
\* pane scrolls its text.
KeyHelpPane ==
    /\ Running
    /\ focus_position = 1
    /\ Apply(Handler, "help_key")
    /\ UNCHANGED << focus_position, header >>

\* KeyMNext with set_active's argument turned round: the help pane's header
\* is made active when the list takes the pane focus.
KeyMNext_header_inverted ==
    /\ Running
    /\ \E lib \in { "ignored", "TypeError" } :
       LET fp == (focus_position + 1) % 2
           p  == IF fp = 0 /\ focus_obj.editing /\ lib = "TypeError"
                 THEN [Handler EXCEPT !.w.err = "TypeError"]
                 ELSE Handler
       IN  /\ lib = "TypeError" => (fp = 0 /\ focus_obj.editing)
           /\ focus_position' = fp
           /\ header' = IF fp = 0 THEN "heading" ELSE "heading_inactive"
           /\ Apply(p, "m_next")

\* Options.keypress, key "m_next": the pane focus moves on, and the newly
\* focused pane is handed the key None.  The list hands it on to the focused
\* row, whose text-input widget, when the row is editing, ignores it or
\* raises, as the widget library has it.
KeyMNext ==
    /\ Running
    /\ \E lib \in { "ignored", "TypeError" } :
       LET fp == (focus_position + 1) % 2
           p  == IF fp = 0 /\ focus_obj.editing /\ lib = "TypeError"
                 THEN [Handler EXCEPT !.w.err = "TypeError"]
                 ELSE Handler
       IN  /\ lib = "TypeError" => (fp = 0 /\ focus_obj.editing)
           /\ focus_position' = fp
           /\ header' = IF fp = 1 THEN "heading" ELSE "heading_inactive"
           /\ Apply(p, "m_next")

\* The list box moves the focus to row t (a mouse click on the row).
SetFocus ==
    /\ ListFocused
    /\ \E t \in 0..(Len(opts) - 1) :
          Apply([Handler EXCEPT !.w = set_focus(Handler.w, options, t)],
                "set_focus")
    /\ UNCHANGED << focus_position, header >>

\* The list box draws the screen after an event: it asks the walker for
\* rows, here for those around a position pos.
Render ==
    /\ Running
    /\ UNCHANGED << options, focus_position, header, last, edit_start >>
    /\ \E pos \in 0..(Len(opts) - 1) :
          LET d == Draw(Walker, options, pos) IN
          /\ opts' = d.w.opts
          /\ index' = d.w.index
          /\ editing' = d.w.editing
          /\ focus_obj' = d.w.focus_obj
          /\ help_text' = d.w.help
          /\ err' = d.w.err
          /\ Len(d.rows) = 3

\* The values another part of the application gives an option.
ExtValues(n) ==
    CASE n = "console_layout" -> { StrVal(Single), StrVal(Vertical) }
      [] n = "ignore_hosts"   -> { SeqVal(<< >>) }
      [] n = "ratelimit"      -> { NoneVal }
      [] n = "timeout"        -> { IntVal(0), IntVal(10) }
      [] n = "verbose"        -> { BoolVal(TRUE), BoolVal(FALSE) }

\* An option is added to the store elsewhere; the changed signal follows.
StoreAdd ==
    /\ Running
    /\ \E n \in NameSet \ keys(options) :
          Apply(changed_send([Handler EXCEPT
                   !.o = [m \in keys(options) \cup {n} |->
                            IF m = n THEN Default(n) ELSE options[m]]]),
                "store")
    /\ UNCHANGED << focus_position, header >>

\* An option is removed from the store elsewhere.
StoreRemove ==
    /\ Running
    /\ Cardinality(keys(options)) > 1
    /\ \E n \in keys(options) :
          Apply(changed_send([Handler EXCEPT
                   !.o = [m \in keys(options) \ {n} |-> options[m]]]),
                "store")
    /\ UNCHANGED << focus_position, header >>

\* An option's value is set elsewhere (another panel, an overlay's setter,
\* a script).
StoreSet ==
    /\ Running
    /\ \E n \in keys(options) : \E v \in ExtValues(n) :
          Apply(changed_send([Handler EXCEPT !.o = [options EXCEPT ![n] = v]]),
                "store")
    /\ UNCHANGED << focus_position, header >>

Next ==
    \/ KeyEnter
    \/ KeyEsc
    \/ KeyMStart
    \/ KeyMEnd
    \/ KeyMSelect
    \/ KeyScroll
    \/ KeyText
    \/ KeyHelpPane
    \/ KeyMNext
    \/ SetFocus
    \/ Render
    \/ StoreAdd
    \/ StoreRemove
    \/ StoreSet

Spec == Init /\ [][Next]_vars

----------------------------------------------------------------------------
(* The claims.                                                             *)

\* A store-change notification from elsewhere in the application.
StoreChange == StoreAdd \/ StoreRemove \/ StoreSet

\* C1: after every store-change notification, also one that shrinks the key
\* set below the old focus index, index is a valid position of opts and
\* sig_mod has ended without an error.  As stated by the claim: the code
\* keeps the old index and raises IndexError when it is out of range.
C1_FocusIndexValid ==
    /\ 0 <= index
    /\ index < Len(opts)
    /\ err \notin { "IndexError", "ValueError" }

\* C2: a store-change notification always cancels the edit: right after it
\* editing is false and the row of the focus holds no edit buffer.  As
\* stated by the claim: when sig_mod raises (C1) the cached row stays the
\* editing row with its buffer.
C2_ResyncCancelsEdit ==
    [][StoreChange => (~editing' /\ ~focus_obj'.editing)]_vars

\* C3: after a store-change notification, if the name focused before it is
\* still in the store, it is still the focused name.  As stated by the
\* claim: the code keeps the position, not the name.
C3_FocusFollowsName ==
    [][(StoreChange /\ opts[index + 1] \in keys(options'))
          => /\ 0 <= index' /\ index' < Len(opts')
             /\ opts'[index' + 1] = opts[index + 1]]_vars

\* C4: in every reachable state opts holds exactly the store's keys, each
\* once, in ascending order.
C4_SortedNames ==
    /\ { opts[i] : i \in 1..Len(opts) } = keys(options)
    /\ \A i, j \in 1..Len(opts) : i < j => Rank(opts[i]) < Rank(opts[j])

\* C4 witness: names were added and a value was set since construction, and
\* the panel is running on the three sorted names.
C4_Witness ==
    /\ err = "none"
    /\ opts = << "ratelimit", "timeout", "verbose" >>
    /\ options["timeout"] = IntVal(10)
    /\ options["verbose"] = BoolVal(TRUE)
    /\ index = 2

\* C5: enter pressed while editing leaves the walker in display mode, the
\* store having accepted or rejected the text: after the keypress editing
\* is false and the row of the focus is no editing row.
C5_CommitExitsEdit ==
    [][(KeyEnter /\ editing) => (~editing' /\ ~focus_obj'.editing)]_vars

\* C5 witness: a commit the store accepted (timeout=10, typed over the 5)
\* has sent the changed signal and ended the edit.
C5_Witness ==
    /\ last.ended = [by |-> "enter", index |-> index, text |-> << "1", "0" >>]
    /\ last.reqs = << << "set", "timeout", << "1", "0" >> >> >>
    /\ options["timeout"] = IntVal(10)
    /\ ~editing
    /\ err = "none"

\* C6: when the store rejects the committed text, no option's value changes,
\* exactly one status message, the error's, is sent, no error escapes the
\* key handler and index is unchanged.
C6_RejectedCommit ==
    [][(/\ KeyEnter
        /\ editing
        /\ ~ParseSetval(focus_obj.name, focus_obj.text).ok)
          => /\ options' = options
             /\ last'.sent = << ErrorMessage(focus_obj.name, focus_obj.text) >>
             /\ err' = "none"
             /\ index' = index]_vars

\* C6 witness: the emptied buffer of timeout was committed and rejected; the
\* value set before is still there.
C6_Witness ==
    /\ last.ended = [by |-> "enter", index |-> index, text |-> << >>]
    /\ Len(last.sent) = 1
    /\ "timeout" \in keys(options)
    /\ opts[index + 1] = "timeout"
    /\ options["timeout"] = IntVal(10)
    /\ err = "none"

\* C7: from entering edit mode to leaving it with esc, whatever is typed in
\* between, no set or toggle request is made, and the store and index are
\* those of the moment the edit began.
C7_CancelledEditIsNoOp ==
    [][(\/ (~editing /\ editing' /\ KeyMSelect)
        \/ (editing /\ (KeyText \/ KeyScroll \/ KeyMStart \/ KeyMEnd
                          \/ KeyMSelect \/ KeyEsc)))
          => /\ last'.reqs = << >>
             /\ options' = options
             /\ index' = index
             /\ (KeyEsc /\ editing)
                   => /\ ~editing'
                      /\ edit_start.on
                      /\ options' = edit_start.o
                      /\ index' = edit_start.index
                      /\ \A n \in keys(options') :
                            has_changed(options', n) = has_changed(edit_start.o, n)]_vars

\* C7 witness: the buffer of timeout was changed from 5 to 10 and the edit
\* cancelled; timeout is still 5.
C7_Witness ==
    /\ last.ended = [by |-> "esc", index |-> index, text |-> << "1", "0" >>]
    /\ "timeout" \in keys(options)
    /\ options["timeout"] = IntVal(5)
    /\ ~editing

\* C8: whenever editing is true, the focused option has no choices and its
\* type is string, integer, optional string or optional integer.
C8_EditOnlyEditable ==
    editing =>
        /\ 0 <= index /\ index < Len(opts)
        /\ Choices(opts[index + 1]) = {}
        /\ TypeSpec(opts[index + 1]) \in { "str", "int", "optstr", "optint" }

\* C8 witness: timeout is being edited with choice-bearing, sequence and
\* boolean options in the list.
C8_Witness ==
    /\ editing
    /\ opts = << "console_layout", "ignore_hosts", "timeout", "verbose" >>
    /\ index = 2
    /\ focus_obj.text = << "5", "0" >>

\* C9: every step that changes index ends with editing false and no edit
\* buffer on the row of the focus; the rows of the other positions, which
\* get_next and get_prev produce, are never editing rows.
C9_FocusChangeEndsEdit ==
    /\ [][(index' # index) => (~editing' /\ ~focus_obj'.editing)]_vars
    /\ [](\A pos \in -1..Len(opts) :
             /\ ~get_next(Walker, options, pos)[1].editing
             /\ ~get_prev(Walker, options, pos)[1].editing)

\* C9 witness: the focus was moved to another row while a row was being
\* edited, and the edit is over.
C9_Witness ==
    /\ last.ended.by = "set_focus"
    /\ last.ended.index # index
    /\ last.ended.text = << "1" >>
    /\ ~editing
    /\ ~focus_obj.editing

\* C10: activate on a focused boolean option flips its value without edit
\* mode and without moving the focus; the focus row then shows the new
\* value; a second press right after the first restores the value.
C10_ToggleBoolean ==
    [][(/\ KeyMSelect
        /\ ~editing
        /\ TypeSpec(focus_obj.name) = "bool")
          => LET n == focus_obj.name IN
             /\ options'[n] = BoolVal(~options[n].b)
             /\ \A m \in keys(options) \ {n} : options'[m] = options[m]
             /\ keys(options') = keys(options)
             /\ ~editing'
             /\ index' = index
             /\ get_focus(Walker')[1].name = n
             /\ ~get_focus(Walker')[1].editing
             /\ get_focus(Walker')[1].text =
                   (IF options'[n].b THEN << "t", "r", "u", "e" >>
                    ELSE << "f", "a", "l", "s", "e" >>)
             /\ (last.reqs = << << "toggle", n >> >>)
                   => options'[n] = last.was]_vars

\* C10 witness: verbose, true before, was toggled and its row shows false.
C10_Witness ==
    /\ last.reqs = << << "toggle", "verbose" >> >>
    /\ last.was = BoolVal(TRUE)
    /\ options["verbose"] = BoolVal(FALSE)
    /\ focus_obj.name = "verbose"
    /\ focus_obj.text = << "f", "a", "l", "s", "e" >>
    /\ ~editing

\* The positions a caller visits by calling get_next again and again from
\* pos, each time with the position the last call returned, until it gets
\* (None, None); at most fuel calls are followed.
RECURSIVE Forward(_, _, _, _)
Forward(w, o, pos, fuel) ==
    IF fuel = 0 THEN << >>
    ELSE LET r == get_next(w, o, pos) IN
         IF r = NoneNone THEN << >>
         ELSE << r[2] >> \o Forward(w, o, r[2], fuel - 1)

\* The same with get_prev.
RECURSIVE Backward(_, _, _, _)
Backward(w, o, pos, fuel) ==
    IF fuel = 0 THEN << >>
    ELSE LET r == get_prev(w, o, pos) IN
         IF r = NoneNone THEN << >>
         ELSE << r[2] >> \o Backward(w, o, r[2], fuel - 1)

\* C11: with n >= 1 names, get_next(pos) is the row of the name at pos + 1
\* with position pos + 1 for 0 <= pos < n - 1 and (None, None) exactly at
\* pos = n - 1; get_prev(pos) is the row of the name at pos - 1 with position
\* pos - 1 for 0 < pos <= n - 1 and (None, None) exactly at pos = 0; calling
\* get_next (get_prev) repeatedly from a valid position visits every later
\* (earlier) position once, in order, and stops at the boundary; positions
\* yields 0..n-1 ascending, and descending when reversed.
C11_Iteration ==
    LET n == Len(opts) IN
    /\ n >= 1
    /\ \A pos \in 0..(n - 1) :
          /\ (get_next(Walker, options, pos) = NoneNone) <=> (pos = n - 1)
          /\ pos < n - 1 =>
                /\ get_next(Walker, options, pos)[2] = pos + 1
                /\ get_next(Walker, options, pos)[1].name = opts[pos + 2]
          /\ (get_prev(Walker, options, pos) = NoneNone) <=> (pos = 0)
          /\ pos > 0 =>
                /\ get_prev(Walker, options, pos)[2] = pos - 1
                /\ get_prev(Walker, options, pos)[1].name = opts[pos]
          /\ Forward(Walker, options, pos, n + 1)
                = [i \in 1..(n - 1 - pos) |-> pos + i]
          /\ Backward(Walker, options, pos, n + 1)
                = [i \in 1..pos |-> pos - i]
    /\ positions(Walker, FALSE) = [i \in 1..n |-> i - 1]
    /\ positions(Walker, TRUE) = [i \in 1..n |-> n - i]

\* Five names with the focus in the middle: rows on both sides to iterate.
C11_Witness ==
    /\ Len(opts) = 5
    /\ index = 2
    /\ Forward(Walker, options, index, 6) = << 3, 4 >>
    /\ Backward(Walker, options, index, 6) = << 1, 0 >>
    /\ get_next(Walker, options, 4) = NoneNone
    /\ get_prev(Walker, options, 0) = NoneNone

\* C12: in every reachable state and for every valid position i, the row the
\* walker produces for i, whether by _get, by get_next(i - 1), by
\* get_prev(i + 1) or as the cached focus row of get_focus, carries the
\* focused flag exactly when i = index; and producing rows changes none of
\* index, editing and opts.
C12_FocusedFlag ==
    /\ [](\A i \in 0..(Len(opts) - 1) :
             /\ _get(Walker, options, i, FALSE).focused <=> (i = index)
             /\ get_next(Walker, options, i - 1)[2] = i
             /\ get_next(Walker, options, i - 1)[1].focused <=> (i = index)
             /\ get_prev(Walker, options, i + 1)[2] = i
             /\ get_prev(Walker, options, i + 1)[1].focused <=> (i = index)
             /\ (get_focus(Walker)[2] = i) => get_focus(Walker)[1].focused)
    /\ [][Render => /\ index' = index
                    /\ editing' = editing
                    /\ opts' = opts]_vars

\* The focus has been moved off its first position by a key, and the rows
\* on both sides of it are not focused.
C12_Witness ==
    /\ Len(opts) >= 3
    /\ index = 1
    /\ focus_obj.focused
    /\ focus_obj.name = opts[2]
    /\ ~get_next(Walker, options, 1)[1].focused
    /\ ~get_prev(Walker, options, 1)[1].focused

\* The store of the scenario of C13, with timeout at value t and verbose at b,
\* shown by a list in navigating or edit mode with the focus at position i.
Scene13(t, b, i, ed) ==
    /\ options = [n \in { "timeout", "verbose" } |->
                     IF n = "timeout" THEN IntVal(t) ELSE BoolVal(b)]
    /\ opts = << "timeout", "verbose" >>
    /\ index = i
    /\ editing = ed
    /\ ListFocused

\* C13: from the store timeout = 5 (int, default 5), verbose = false (bool)
\* with the focus on timeout: m_select enters edit mode with the buffer "5";
\* typing keeps the edit open on timeout; enter on the buffer "10" sets
\* timeout to 10, has_changed(timeout) holds and edit mode is left; m_end
\* then moves the focus to verbose; m_select there sets verbose to true,
\* has_changed(verbose) holds and the list is still not editing.
C13_Scenario ==
    [][ /\ (Scene13(5, FALSE, 0, FALSE) /\ KeyMSelect) =>
              /\ Scene13(5, FALSE, 0, TRUE)'
              /\ focus_obj'.editing
              /\ focus_obj'.name = "timeout"
              /\ focus_obj'.text = << "5" >>
        /\ (Scene13(5, FALSE, 0, TRUE) /\ KeyText) =>
              /\ Scene13(5, FALSE, 0, TRUE)'
              /\ focus_obj'.editing
              /\ focus_obj'.name = "timeout"
        /\ (Scene13(5, FALSE, 0, TRUE) /\ focus_obj.text = << "1", "0" >>
               /\ KeyEnter) =>
              /\ Scene13(10, FALSE, 0, FALSE)'
              /\ has_changed(options', "timeout")
              /\ ~focus_obj'.editing
              /\ focus_obj'.text = << "1", "0" >>
        /\ (Scene13(10, FALSE, 0, FALSE) /\ KeyMEnd) =>
              /\ Scene13(10, FALSE, 1, FALSE)'
              /\ focus_obj'.name = "verbose"
        /\ (Scene13(10, FALSE, 1, FALSE) /\ KeyMSelect) =>
              /\ Scene13(10, TRUE, 1, FALSE)'
              /\ has_changed(options', "verbose")
              /\ focus_obj'.name = "verbose"
              /\ ~focus_obj'.editing
      ]_vars

\* The end of the scenario: timeout committed as 10 and verbose just
\* toggled from false to true by m_select, the focus on verbose.
C13_Witness ==
    /\ Scene13(10, TRUE, 1, FALSE)
    /\ last.reqs = << << "toggle", "verbose" >> >>
    /\ last.was = BoolVal(FALSE)
    /\ has_changed(options, "timeout")
    /\ has_changed(options, "verbose")

\* C14: for every valid position i, every row the walker produces for i, the
\* cached focus row or the row from get_next(i - 1) or get_prev(i + 1),
\* carries the editing flag exactly when i = index and editing holds.  As
\* stated by the claim: get_next and get_prev build every row, the one at
\* index too, with editing False.
C14_EditingFlag ==
    \A i \in 0..(Len(opts) - 1) :
       /\ get_next(Walker, options, i - 1)[1].editing <=> (i = index /\ editing)
       /\ get_prev(Walker, options, i + 1)[1].editing <=> (i = index /\ editing)
       /\ (get_focus(Walker)[2] = i) =>
             (get_focus(Walker)[1].editing <=> editing)

\* C15: while the list pane holds the pane focus and editing is true, a key
\* other than enter and esc (m_start, m_end, m_select, a line or page
\* scrolling key, a character, backspace) goes to the row's text-input
\* widget and is consumed there: at most the edit buffer changes; index,
\* editing, opts and every store value stay as they were, nothing is
\* requested of the store, nothing is opened and nothing fails.
C15_KeysWhileEditing ==
    [][ (editing /\ ListFocused
            /\ (KeyMStart \/ KeyMEnd \/ KeyMSelect \/ KeyScroll \/ KeyText)) =>
          /\ index' = index
          /\ editing'
          /\ opts' = opts
          /\ options' = options
          /\ focus_obj' = [focus_obj EXCEPT !.text = focus_obj'.text]
          /\ focus_obj'.editing
          /\ help_text' = help_text
          /\ focus_position' = focus_position
          /\ err' = "none"
          /\ last'.reqs = << >>
          /\ last'.sent = << >>
          /\ last'.overlay = "none"
      ]_vars

\* An edit of timeout whose buffer a key has changed, with a row below the
\* focus that a scrolling key would otherwise move to.
C15_Witness ==
    /\ editing
    /\ ListFocused
    /\ focus_obj.name = "timeout"
    /\ focus_obj.text = << "5", "1" >>
    /\ options["timeout"] = IntVal(5)
    /\ index < Len(opts) - 1

\* C16: the panel starts with the list pane holding the pane focus; m_next
\* moves the pane focus to the other of the two panes, so that two presses
\* bring it back, and no other event moves it; and in every reachable state
\* the help pane's header has the active style exactly when the help pane
\* holds the pane focus.
C16_PaneFocus ==
    /\ focus_position = 0
    /\ [](/\ focus_position \in { 0, 1 }
          /\ header \in { "heading", "heading_inactive" }
          /\ (header = "heading") <=> (focus_position = 1))
    /\ [][ /\ KeyMNext => focus_position' = 1 - focus_position
           /\ focus_position' # focus_position => KeyMNext ]_vars

\* m_next has given the help pane the pane focus.
C16_Witness ==
    /\ focus_position = 1
    /\ header = "heading"
    /\ Running

\* C17: m_next pressed while a row is being edited is allowed and does not
\* cancel the edit: it changes the pane focus and the help header only, and
\* leaves editing true and the edit buffer, index and every store value as
\* they were; and once the pane focus is back on the list, the edit can
\* still be committed or cancelled (the list takes keys).  As stated by the
\* claim: on the way back the list hands the key None to the editing row's
\* text-input widget.
C17_PaneSwitchMidEdit ==
    [][ (editing /\ Running /\ KeyMNext) =>
          /\ focus_position' = 1 - focus_position
          /\ editing'
          /\ focus_obj' = focus_obj
          /\ index' = index
          /\ opts' = opts
          /\ options' = options
          /\ focus_position' = 0 => ListFocused'
      ]_vars

\* C18: m_select in navigating mode on a focused option that is not
\* boolean, not editable in place, has no choices and is not a sequence of
\* strings ends in NotImplementedError, never in silence, and without
\* entering edit mode, opening an overlay, moving the focus, asking
\* anything of the store or changing a store value.
C18_UnknownKind ==
    [][ (/\ ~editing
         /\ ListFocused
         /\ TypeSpec(focus_obj.name) # "bool"
         /\ ~can_edit_inplace(focus_obj.name)
         /\ Choices(focus_obj.name) = {}
         /\ TypeSpec(focus_obj.name) # "seqstr"
         /\ KeyMSelect) =>
          /\ err' = "NotImplementedError"
          /\ ~editing'
          /\ last'.overlay = "none"
          /\ last'.reqs = << >>
          /\ index' = index
          /\ focus_obj' = focus_obj
          /\ opts' = opts
          /\ options' = options
      ]_vars

\* m_select on ratelimit, a float option without choices, has raised.
C18_Witness ==
    /\ err = "NotImplementedError"
    /\ focus_obj.name = "ratelimit"
    /\ opts[index + 1] = "ratelimit"
    /\ ~editing
    /\ ~focus_obj.editing
    /\ last.overlay = "none"

\* C19: a commit issues one set request, for the option whose value seeded
\* the edit buffer.  Edit mode is entered on the focused name with that
\* option's displayed value as the buffer; as long as the edit lasts,
\* whatever store-change notifications add or remove names meanwhile, the
\* row being edited is the row of that name; the set request of enter names
\* it, and the commit changes the value of no other option.
C19_CommitTargetsEditedOption ==
    [][ /\ (~editing /\ editing') =>
              /\ edit_start'.on
              /\ edit_start'.name = opts[index + 1]
              /\ focus_obj'.name = edit_start'.name
              /\ focus_obj'.text
                    = DisplayVal(edit_start'.name, options[edit_start'.name])
              /\ options' = options
        /\ (editing /\ editing') =>
              /\ edit_start' = edit_start
              /\ focus_obj'.name = edit_start.name
              /\ options' = options
        /\ (editing /\ ListFocused /\ KeyEnter) =>
              /\ edit_start.on
              /\ last'.reqs
                    = << << "set", edit_start.name, focus_obj.text >> >>
              /\ keys(options') = keys(options)
              /\ \A m \in keys(options) \ { edit_start.name } :
                    options'[m] = options[m]
      ]_vars

\* A commit has set timeout in the full store, where timeout is the fourth
\* of five names, and the other values are the defaults they were.
C19_Witness ==
    /\ last.ended.by = "enter"
    /\ last.ended.index = 3
    /\ last.reqs = << << "set", "timeout", << "1" >> >> >>
    /\ options["timeout"] = IntVal(1)
    /\ keys(options) = NameSet
    /\ \A m \in NameSet \ { "timeout" } : options[m] = Default(m)

\* C20: in every reachable state between two handlers, the cached focus row
\* that get_focus returns (and current_name reads) is the row of
\* opts[index], a key of the store; it is an edit-mode row, with an edit
\* buffer to read, exactly when editing holds; when not editing it shows
\* the store's current value of that option; and the help pane shows that
\* option's help text.  As stated by the claim: after the IndexError of C1
\* index is past the end of opts and the cached row is a stale one.
C20_FocusRowInSync ==
    /\ InRange(Walker, index)
    /\ get_focus(Walker)[2] = index
    /\ get_focus(Walker)[1].name = opts[index + 1]
    /\ opts[index + 1] \in keys(options)
    /\ get_focus(Walker)[1].editing <=> editing
    /\ ~editing =>
          get_focus(Walker)[1].text
             = DisplayVal(opts[index + 1], options[opts[index + 1]])
    /\ help_text = Help(opts[index + 1])

====
